---- MODULE Spec2Model ----
(***************************************************************************)
(* Model of pkg/api/graph.go: the StepLink satisfiability relation, the    *)
(* link-set utilities HasAnyLinks / HasAllLinks, BuildGraph and            *)
(* BuildPartialGraph.                                                      *)
(*                                                                         *)
(* A StepLink is a record [kind, namespace, name, tag]; fields a variant   *)
(* does not carry hold "".  A Step is a record [name, requires, creates]   *)
(* (the values of Name(), Requires(), Creates()).  A StepNode is the index *)
(* of its step in the slice handed to BuildGraph; a graph is a record      *)
(* [Children, roots] with Children[i] the Children slice of node i.        *)
(***************************************************************************)
EXTENDS Integers, Sequences, FiniteSets

VARIABLES
    steps,      \* []Step argument of BuildGraph / BuildPartialGraph
    names,      \* the caller's names slice (its backing array, at its length)
    pc,         \* "start" before the call, "done" after it has returned
    op,         \* the function that was called
    forest,     \* returned graph: [Children, roots] over the built nodes
    targeted,   \* indices (into steps) of the steps the nodes were built from
    seeds,      \* indices of the steps matched to a requested name
    err,        \* returned error: Nil or the two arguments of the Errorf
    needles,    \* first []StepLink argument of HasAllLinks / HasAnyLinks
    haystack,   \* second []StepLink argument
    result      \* returned bool of the link functions

vars == <<steps, names, pc, op, forest, targeted, seeds, err, needles, haystack, result>>

(***************************************************************************)
(* Bounds of the checked inputs.                                           *)
(***************************************************************************)
MaxSteps == 2

MaxNames == 2

MaxLinks == 2

Nil == [nil |-> TRUE]

(***************************************************************************)
(* Link constructors.                                                      *)
(***************************************************************************)
internalImageStreamLink(n) ==
    [kind |-> "internalImageStreamLink", namespace |-> "", name |-> n, tag |-> ""]

internalImageStreamTagLink(n, t) ==
    [kind |-> "internalImageStreamTagLink", namespace |-> "", name |-> n, tag |-> t]

externalImageLink(ns, n, t) ==
    [kind |-> "externalImageLink", namespace |-> ns, name |-> n, tag |-> t]

allStepsLink == [kind |-> "allStepsLink", namespace |-> "", name |-> "", tag |-> ""]

imagesReadyLink == [kind |-> "imagesReadyLink", namespace |-> "", name |-> "", tag |-> ""]

rpmRepoLink == [kind |-> "rpmRepoLink", namespace |-> "", name |-> "", tag |-> ""]

(***************************************************************************)
(* SatisfiedBy, one operator per receiver type.                            *)
(***************************************************************************)
\* variant of internalImageStreamLinkSatisfiedBy that also accepts a tag of the stream
StreamSatisfiedByTagToo(l, other) ==
    IF other.kind \in {"internalImageStreamLink", "internalImageStreamTagLink"}
    THEN l.name = other.name
    ELSE FALSE

internalImageStreamLinkSatisfiedBy(l, other) ==
    IF other.kind = "internalImageStreamLink" THEN l.name = other.name ELSE FALSE

internalImageStreamTagLinkSatisfiedBy(l, other) ==
    IF other.kind = "internalImageStreamTagLink"
    THEN l.name = other.name /\ l.tag = other.tag
    ELSE IF other.kind = "internalImageStreamLink"
    THEN l.name = other.name
    ELSE FALSE

allStepsLinkSatisfiedBy(l, other) == TRUE

externalImageLinkSatisfiedBy(l, other) ==
    IF other.kind = "externalImageLink"
    THEN l.name = other.name /\ l.namespace = other.namespace /\ l.tag = other.tag
    ELSE FALSE

imagesReadyLinkSatisfiedBy(l, other) == other.kind = "imagesReadyLink"

rpmRepoLinkSatisfiedBy(l, other) == other.kind = "rpmRepoLink"

\* l.SatisfiedBy(other): dynamic dispatch on the receiver's type.
SatisfiedBy(l, other) ==
    CASE l.kind = "internalImageStreamLink" -> internalImageStreamLinkSatisfiedBy(l, other)
      [] l.kind = "internalImageStreamTagLink" -> internalImageStreamTagLinkSatisfiedBy(l, other)
      [] l.kind = "allStepsLink" -> allStepsLinkSatisfiedBy(l, other)
      [] l.kind = "externalImageLink" -> externalImageLinkSatisfiedBy(l, other)
      [] l.kind = "imagesReadyLink" -> imagesReadyLinkSatisfiedBy(l, other)
      [] l.kind = "rpmRepoLink" -> rpmRepoLinkSatisfiedBy(l, other)

(***************************************************************************)
(* HasAnyLinks and HasAllLinks, loop by loop.                              *)
(***************************************************************************)
RECURSIVE AnyInner(_, _, _)
AnyInner(stepLinks, candidate, k) ==
    IF k > Len(stepLinks) THEN FALSE
    ELSE IF SatisfiedBy(stepLinks[k], candidate) THEN TRUE
    ELSE AnyInner(stepLinks, candidate, k + 1)

RECURSIVE AnyOuter(_, _, _)
AnyOuter(stepLinks, candidates, c) ==
    IF c > Len(candidates) THEN FALSE
    ELSE IF AnyInner(stepLinks, candidates[c], 1) THEN TRUE
    ELSE AnyOuter(stepLinks, candidates, c + 1)

\* variant of HasAnyLinks that returns after the first candidate
HasAnyLinksFirstOnly(stepLinks, candidates) ==
    Len(candidates) > 0 /\ AnyInner(stepLinks, candidates[1], 1)

HasAnyLinks(stepLinks, candidates) == AnyOuter(stepLinks, candidates, 1)

RECURSIVE AllInner(_, _, _, _)
AllInner(needle, hays, h, contains) ==
    IF h > Len(hays) THEN contains
    ELSE AllInner(needle, hays, h + 1,
                  IF SatisfiedBy(hays[h], needle) THEN TRUE ELSE contains)

RECURSIVE AllOuter(_, _, _)
AllOuter(ns, hays, n) ==
    IF n > Len(ns) THEN TRUE
    ELSE IF ~AllInner(ns[n], hays, 1, FALSE) THEN FALSE
    ELSE AllOuter(ns, hays, n + 1)

HasAllLinks(ns, hays) == AllOuter(ns, hays, 1)

(***************************************************************************)
(* BuildGraph.  The state of the loops is [Children, isRoot]; a node is    *)
(* the index of its step.                                                  *)
(***************************************************************************)
addToNode(Children, parent, child) ==
    IF \E k \in 1..Len(Children[parent]) : Children[parent][k] = child
    THEN Children
    ELSE [Children EXCEPT ![parent] = Append(@, child)]

\* the two innermost loops: r over node.Step.Requires(), c over other.Step.Creates()
RECURSIVE LinkLoop(_, _, _, _, _, _)
LinkLoop(st, S, node, other, r, c) ==
    IF r > Len(S[node].requires) THEN st
    ELSE IF c > Len(S[other].creates) THEN LinkLoop(st, S, node, other, r + 1, 1)
    ELSE LinkLoop(
            IF SatisfiedBy(S[node].requires[r], S[other].creates[c])
            THEN [Children |-> addToNode(st.Children, other, node), isRoot |-> FALSE]
            ELSE st,
            S, node, other, r, c + 1)

\* for _, other := range allNodes
RECURSIVE OtherLoop(_, _, _, _)
OtherLoop(st, S, node, other) ==
    IF other > Len(S) THEN st
    ELSE OtherLoop(LinkLoop(st, S, node, other, 1, 1), S, node, other + 1)

\* for _, node := range allNodes
RECURSIVE NodeLoop(_, _, _)
NodeLoop(g, S, node) ==
    IF node > Len(S) THEN g
    ELSE LET st == OtherLoop([Children |-> g.Children, isRoot |-> TRUE], S, node, 1)
         IN  NodeLoop([Children |-> st.Children,
                       roots |-> IF st.isRoot THEN Append(g.roots, node) ELSE g.roots],
                      S, node + 1)

BuildGraph(S) ==
    NodeLoop([Children |-> [i \in 1..Len(S) |-> <<>>], roots |-> <<>>], S, 1)

(***************************************************************************)
(* BuildPartialGraph.                                                      *)
(*                                                                         *)
(* The names parameter is a slice over the caller's backing array: arr is  *)
(* that array and len the length of the function's own slice, which is     *)
(* always the prefix arr[1..len].                                          *)
(***************************************************************************)
\* strings.Join: the elements with sep between them, as a token sequence
Join(elems, sep) ==
    [k \in 1..(IF Len(elems) = 0 THEN 0 ELSE 2 * Len(elems) - 1) |->
        IF k % 2 = 1 THEN elems[(k + 1) \div 2] ELSE sep]

\* the inner loop "for j, name := range names": the first j whose name is the
\* step's, 0 when every iteration hits the continue
FirstMatch(arr, len, name) ==
    IF \E j \in 1..len : arr[j] = name
    THEN CHOOSE j \in 1..len : arr[j] = name /\ \A k \in 1..(j - 1) : arr[k] # name
    ELSE 0

\* variant of RemoveAt that drops the last name instead of the j-th
RemoveLast(m, j) == [m EXCEPT !.len = m.len - 1]

\* names = append(names[:j], names[j+1:]...): the tail is copied down in place
RemoveAt(m, j) ==
    [m EXCEPT !.arr = [k \in 1..Len(m.arr) |->
                          IF k >= j /\ k < m.len THEN m.arr[k + 1] ELSE m.arr[k]],
              !.len = m.len - 1]

\* for i, step := range steps (the name-matching loop)
RECURSIVE MatchLoop(_, _, _)
MatchLoop(m, S, i) ==
    IF i > Len(S) THEN m
    ELSE LET m1 == [m EXCEPT !.allNames = Append(@, S[i].name)]
             j  == FirstMatch(m1.arr, m1.len, S[i].name)
         IN  IF j = 0 THEN MatchLoop(m1, S, i + 1)
             ELSE MatchLoop(
                    RemoveAt([m1 EXCEPT !.candidates[i] = TRUE,
                                        !.required = @ \o S[i].requires], j),
                    S, i + 1)

\* one pass "for i, step := range steps" of the expansion loop
RECURSIVE PassLoop(_, _, _)
PassLoop(c, S, i) ==
    IF i > Len(S) THEN c
    ELSE IF c.candidates[i] THEN PassLoop(c, S, i + 1)
    ELSE IF HasAnyLinks(c.required, S[i].creates)
    THEN PassLoop([candidates |-> [c.candidates EXCEPT ![i] = TRUE],
                   required |-> c.required \o S[i].requires,
                   added |-> c.added + 1], S, i + 1)
    ELSE PassLoop(c, S, i + 1)

\* for { added := 0; ...; if added == 0 { break } }
RECURSIVE Expand(_, _)
Expand(c, S) ==
    LET p == PassLoop([c EXCEPT !.added = 0], S, 1)
    IN  IF p.added = 0 THEN p ELSE Expand(p, S)

\* var targeted []Step: the indices of the candidates, in order
RECURSIVE Targeted(_, _)
Targeted(candidates, i) ==
    IF i > Len(candidates) THEN <<>>
    ELSE (IF candidates[i] THEN <<i>> ELSE <<>>) \o Targeted(candidates, i + 1)

\* the value of the call: the returned forest and error, the caller's view of
\* names afterwards, and the candidates bookkeeping (seeds, targeted)
BuildPartialGraph(S, N) ==
    IF Len(N) = 0
    THEN [forest |-> BuildGraph(S), err |-> Nil, names |-> N,
          targeted |-> [i \in 1..Len(S) |-> i], seeds |-> {}]
    ELSE LET m == MatchLoop([arr |-> N, len |-> Len(N),
                             candidates |-> [i \in 1..Len(S) |-> FALSE],
                             required |-> <<>>, allNames |-> <<>>], S, 1)
         IN  IF m.len > 0
             THEN [forest |-> [Children |-> <<>>, roots |-> <<>>],
                   err |-> [names |-> Join(SubSeq(m.arr, 1, m.len), ", "),
                            from |-> Join(m.allNames, ", ")],
                   names |-> m.arr, targeted |-> <<>>,
                   seeds |-> {i \in 1..Len(S) : m.candidates[i]}]
             ELSE LET c == Expand([candidates |-> m.candidates,
                                   required |-> m.required, added |-> 0], S)
                      t == Targeted(c.candidates, 1)
                  IN  [forest |-> BuildGraph([k \in 1..Len(t) |-> S[t[k]]]),
                       err |-> Nil, names |-> m.arr, targeted |-> t,
                       seeds |-> {i \in 1..Len(S) : m.candidates[i]}]

(***************************************************************************)
(* Inputs.                                                                 *)
(***************************************************************************)
SeqsUpTo(U, n) == UNION {[1..k -> U] : k \in 0..n}

StreamLink == internalImageStreamLink("stable")

TagLink == internalImageStreamTagLink("stable", "x")

\* Requires() and Creates() of the steps handed to the graph builders
RequiresLists == {<<>>, <<StreamLink>>, <<TagLink>>, <<rpmRepoLink>>}

\* a step that creates the stream creates its tag as well
CreatesLists == {<<>>, <<TagLink>>, <<TagLink, StreamLink>>, <<rpmRepoLink>>}

StepNames == {"", "a"}

RequestNames == {"", "a"}

StepUniverse ==
    [name : StepNames, requires : RequiresLists, creates : CreatesLists]

\* the links handed to SatisfiedBy, HasAnyLinks and HasAllLinks
LinkUniverse ==
    {internalImageStreamLink(n) : n \in {"stable", "pipeline"}}
    \cup {internalImageStreamTagLink("stable", t) : t \in {"x", "y"}}
    \cup {internalImageStreamTagLink("pipeline", "x")}
    \cup {externalImageLink("ocp", "stable", "x")}
    \cup {allStepsLink, imagesReadyLink, rpmRepoLink}

(***************************************************************************)
(* The graph builders: one call on inputs chosen in Init.                  *)
(***************************************************************************)
Init ==
    /\ steps \in SeqsUpTo(StepUniverse, MaxSteps)
    /\ names \in SeqsUpTo(RequestNames, MaxNames)
    /\ pc = "start"
    /\ op = "none"
    /\ forest = [Children |-> <<>>, roots |-> <<>>]
    /\ targeted = <<>>
    /\ seeds = {}
    /\ err = Nil
    /\ needles = <<>>
    /\ haystack = <<>>
    /\ result = FALSE

CallBuildGraph ==
    /\ pc = "start"
    /\ pc' = "done"
    /\ op' = "BuildGraph"
    /\ forest' = BuildGraph(steps)
    /\ targeted' = [i \in 1..Len(steps) |-> i]
    /\ UNCHANGED <<steps, names, seeds, err, needles, haystack, result>>

CallBuildPartialGraph ==
    /\ pc = "start"
    /\ pc' = "done"
    /\ op' = "BuildPartialGraph"
    /\ \E r \in {BuildPartialGraph(steps, names)} :
           /\ forest' = r.forest
           /\ err' = r.err
           /\ names' = r.names
           /\ targeted' = r.targeted
           /\ seeds' = r.seeds
    /\ UNCHANGED <<steps, needles, haystack, result>>

Next == CallBuildGraph \/ CallBuildPartialGraph

Spec == Init /\ [][Next]_vars

(***************************************************************************)
(* The link functions: one call on link lists chosen in LinkInit.          *)
(***************************************************************************)
LinkInit ==
    /\ needles \in SeqsUpTo(LinkUniverse, MaxLinks)
    /\ haystack \in SeqsUpTo(LinkUniverse, MaxLinks)
    /\ pc = "start"
    /\ op = "none"
    /\ result = FALSE
    /\ steps = <<>>
    /\ names = <<>>
    /\ forest = [Children |-> <<>>, roots |-> <<>>]
    /\ targeted = <<>>
    /\ seeds = {}
    /\ err = Nil

\* needles[1].SatisfiedBy(haystack[1])
CallSatisfiedBy ==
    /\ pc = "start"
    /\ Len(needles) = 1 /\ Len(haystack) = 1
    /\ pc' = "done"
    /\ op' = "SatisfiedBy"
    /\ result' = SatisfiedBy(needles[1], haystack[1])
    /\ UNCHANGED <<steps, names, forest, targeted, seeds, err, needles, haystack>>

CallHasAnyLinks ==
    /\ pc = "start"
    /\ pc' = "done"
    /\ op' = "HasAnyLinks"
    /\ result' = HasAnyLinks(needles, haystack)
    /\ UNCHANGED <<steps, names, forest, targeted, seeds, err, needles, haystack>>

CallHasAllLinks ==
    /\ pc = "start"
    /\ pc' = "done"
    /\ op' = "HasAllLinks"
    /\ result' = HasAllLinks(needles, haystack)
    /\ UNCHANGED <<steps, names, forest, targeted, seeds, err, needles, haystack>>

LinkNext == CallSatisfiedBy \/ CallHasAnyLinks \/ CallHasAllLinks

LinkSpec == LinkInit /\ [][LinkNext]_vars

(***************************************************************************)
(* Vocabulary of the properties.                                           *)
(***************************************************************************)
Range(f) == {f[k] : k \in DOMAIN f}

\* step p is required by step s: a link of p.Creates() satisfies a link of s.Requires()
RequiredBy(S, s, p) ==
    \E i \in 1..Len(S[s].requires) : \E j \in 1..Len(S[p].creates) :
        SatisfiedBy(S[s].requires[i], S[p].creates[j])

\* X plus every step transitively required by a step of X
RECURSIVE Closure(_, _)
Closure(S, X) ==
    LET Y == X \cup {p \in 1..Len(S) : \E s \in X : RequiredBy(S, s, p)}
    IN  IF Y = X THEN X ELSE Closure(S, Y)

\* the nodes reachable from X through Children
RECURSIVE ReachableFrom(_, _)
ReachableFrom(g, X) ==
    LET Y == X \cup UNION {Range(g.Children[k]) : k \in X}
    IN  IF Y = X THEN X ELSE ReachableFrom(g, Y)

\* the nodes of a returned forest
Nodes(g) == ReachableFrom(g, Range(g.roots))

\* the steps (indices into steps) of the returned forest
ForestSteps == {targeted[k] : k \in Nodes(forest)}

Occurrences(s, x) == Cardinality({k \in 1..Len(s) : s[k] = x})

\* how often name n is requested beyond the steps that carry it
Unmatched(S, N, n) ==
    LET d == Occurrences(N, n) - Cardinality({i \in 1..Len(S) : S[i].name = n})
    IN  IF d > 0 THEN d ELSE 0

\* the elements of a joined list, and whether it is well formed
Listed(tokens) == [k \in 1..((Len(tokens) + 1) \div 2) |-> tokens[2 * k - 1]]

WellJoined(tokens) ==
    /\ Len(tokens) = 0 \/ Len(tokens) % 2 = 1
    /\ \A k \in 1..Len(tokens) : k % 2 = 0 => tokens[k] = ", "

PartialDone == pc = "done" /\ op = "BuildPartialGraph" /\ Len(names) > 0

(***************************************************************************)
(* C1: after a successful BuildPartialGraph with non-empty names, the      *)
(* steps of the returned forest (reachable from its roots through          *)
(* Children) are exactly the requested steps plus every step transitively  *)
(* required by them.                                                       *)
(***************************************************************************)
C1_ForestIsClosure ==
    (PartialDone /\ err = Nil) => ForestSteps = Closure(steps, seeds)

(***************************************************************************)
(* C2: a BuildPartialGraph call with non-empty names returns an error      *)
(* exactly when some requested name is left unmatched (each step consumes  *)
(* at most one request); the error comes with a nil forest and lists       *)
(* exactly the unmatched names and the names of all steps; without error   *)
(* exactly one step was matched per requested name.                        *)
(***************************************************************************)
C2_Post(S, N, e, f, sd) ==
    /\ (e # Nil) <=> (\E n \in Range(N) : Unmatched(S, N, n) > 0)
    /\ e # Nil =>
        /\ f.roots = <<>>
        /\ WellJoined(e.names) /\ WellJoined(e.from)
        /\ \A n \in Range(N) \cup Range(Listed(e.names)) :
              Occurrences(Listed(e.names), n) = Unmatched(S, N, n)
        /\ Listed(e.from) = [i \in 1..Len(S) |-> S[i].name]
    /\ e = Nil =>
        /\ Cardinality(sd) = Len(N)
        /\ \A n \in Range(N) :
              Cardinality({i \in sd : S[i].name = n}) = Occurrences(N, n)

C2_NotFoundExactly ==
    [][(pc = "start" /\ op' = "BuildPartialGraph" /\ Len(names) > 0)
        => C2_Post(steps, names, err', forest', seeds')]_vars

\* an error about a name that a step carries: it was requested twice
C2_Witness ==
    /\ PartialDone /\ err # Nil
    /\ \E i \in 1..Len(steps) : steps[i].name \in Range(Listed(err.names))

(***************************************************************************)
(* C3: every step given to BuildGraph is reachable from a returned root    *)
(* through Children.                                                       *)
(***************************************************************************)
C3_AllStepsIncluded ==
    (pc = "done" /\ op = "BuildGraph") => Nodes(forest) = 1..Len(steps)

(***************************************************************************)
(* C4: in BuildGraph, a step none of whose requirements is satisfied by a  *)
(* link created by another step is returned as a root.                     *)
(***************************************************************************)
C4_UnsatisfiedIsRoot ==
    (pc = "done" /\ op = "BuildGraph") =>
        \A i \in 1..Len(steps) :
            (\A j \in 1..Len(steps) : j # i => ~RequiredBy(steps, i, j))
                => i \in Range(forest.roots)

(***************************************************************************)
(* C5: a tag link is satisfied by the stream link of its stream, a stream  *)
(* link is never satisfied by a tag link; a tag link is satisfied by a tag *)
(* link only when stream and tag are equal, and either is satisfied by a   *)
(* stream link only when the stream names are equal.                       *)
(***************************************************************************)
C5_Asymmetry ==
    (pc = "done" /\ op = "SatisfiedBy") =>
        LET l == needles[1]
            o == haystack[1]
            isStream(x) == x.kind = "internalImageStreamLink"
            isTag(x) == x.kind = "internalImageStreamTagLink"
        IN  /\ (isTag(l) /\ isStream(o)) => (result <=> l.name = o.name)
            /\ (isStream(l) /\ isTag(o)) => ~result
            /\ (isTag(l) /\ isTag(o)) => (result <=> (l.name = o.name /\ l.tag = o.tag))
            /\ (isStream(l) /\ isStream(o)) => (result <=> l.name = o.name)

\* T.SatisfiedBy(S) was evaluated, for S and T over the same stream
C5_Witness ==
    /\ pc = "done" /\ op = "SatisfiedBy" /\ result
    /\ needles[1].kind = "internalImageStreamTagLink"
    /\ haystack[1].kind = "internalImageStreamLink"
    /\ needles[1].name = haystack[1].name

(***************************************************************************)
(* C6: HasAllLinks(needles, haystack) is true exactly when every needle n  *)
(* has a haystack link h with n.SatisfiedBy(h).                            *)
(***************************************************************************)
C6_EveryNeedleSatisfied ==
    (pc = "done" /\ op = "HasAllLinks") =>
        (result <=> \A n \in 1..Len(needles) : \E h \in 1..Len(haystack) :
                        SatisfiedBy(needles[n], haystack[h]))

(***************************************************************************)
(* C7: BuildPartialGraph never selects a step whose name is empty as a     *)
(* requested (seed) step.                                                  *)
(***************************************************************************)
C7_EmptyNameNotTargeted ==
    (pc = "done" /\ op = "BuildPartialGraph") =>
        \A i \in seeds : steps[i].name # ""

(***************************************************************************)
(* C8: BuildGraph makes node a child of other exactly when they are        *)
(* different nodes and a link node requires is satisfied by a link other   *)
(* creates; no node is its own child.                                      *)
(***************************************************************************)
C8_ChildIffDistinctAndRequired ==
    (pc = "done" /\ op = "BuildGraph") =>
        \A node, other \in 1..Len(steps) :
            (node \in Range(forest.Children[other]))
                <=> (node # other /\ RequiredBy(steps, node, other))

C10_InputsUnchanged == [][names' = names /\ steps' = steps]_vars

====
